---- MODULE Spec2Model ----
(***************************************************************************)
(* Model of the capture-rust client (src/src/lib.rs): the signed-URL       *)
(* builders of Capture, the query serialisation and the MD5 signing token. *)
(* Program strings are sequences of one-character strings, so that         *)
(* percent-encoding, hex formatting and hashing are computed on the bytes. *)
(***************************************************************************)
EXTENDS Integers, Sequences, FiniteSets, TLC

(***************************************************************************)
(* Characters and bytes.  Ascii lists the printable ASCII characters in    *)
(* code order; Ord gives the byte of a character (32..126).  The grave     *)
(* accent (byte 96) cannot be written in a string and is named instead.    *)
(***************************************************************************)
Ascii ==
    << " ", "!", "\"", "#", "$", "%", "&", "'", "(", ")", "*", "+", ",", "-", ".", "/",
       "0", "1", "2", "3", "4", "5", "6", "7", "8", "9", ":", ";", "<", "=", ">", "?",
       "@", "A", "B", "C", "D", "E", "F", "G", "H", "I", "J", "K", "L", "M", "N", "O",
       "P", "Q", "R", "S", "T", "U", "V", "W", "X", "Y", "Z", "[", "\\", "]", "^", "_",
       "GRAVE", "a", "b", "c", "d", "e", "f", "g", "h", "i", "j", "k", "l", "m", "n", "o",
       "p", "q", "r", "s", "t", "u", "v", "w", "x", "y", "z", "{", "|", "}", "~" >>

OrdTable == [c \in {Ascii[i] : i \in 1..Len(Ascii)} |->
                31 + (CHOOSE i \in 1..Len(Ascii) : Ascii[i] = c)]

Ord(c) == OrdTable[c]

Chr(b) == Ascii[b - 31]

Bytes(s) == [i \in 1..Len(s) |-> Ord(s[i])]

\* the concatenation of the sequences ss[i..j], split in halves to keep the
\* evaluation shallow
RECURSIVE ConcatRange(_, _, _)
ConcatRange(ss, i, j) ==
    IF i > j THEN <<>>
    ELSE IF i = j THEN ss[i]
    ELSE LET mid == (i + j) \div 2
         IN  ConcatRange(ss, i, mid) \o ConcatRange(ss, mid + 1, j)

Concat(ss) == ConcatRange(ss, 1, Len(ss))

(***************************************************************************)
(* MD5 (RFC 1321), as computed by md5::compute.  A 32-bit word is a pair   *)
(* <<hi, lo>> of 16-bit halves, so that no intermediate value leaves the   *)
(* range of the checker's integers.                                        *)
(***************************************************************************)
Pow2 == <<2, 4, 8, 16, 32, 64, 128, 256, 512, 1024, 2048, 4096, 8192, 16384, 32768, 65536>>

Md5K ==
    << <<55146, 42104>>, <<59591, 46934>>, <<9248, 28891>>, <<49597, 52974>>,
       <<62844, 4015>>, <<18311, 50730>>, <<43056, 17939>>, <<64838, 38145>>,
       <<27008, 39128>>, <<35652, 63407>>, <<65535, 23473>>, <<35164, 55230>>,
       <<27536, 4386>>, <<64920, 29075>>, <<42617, 17294>>, <<18868, 2081>>,
       <<63006, 9570>>, <<49216, 45888>>, <<9822, 23121>>, <<59830, 51114>>,
       <<54831, 4189>>, <<580, 5203>>, <<55457, 59009>>, <<59347, 64456>>,
       <<8673, 52710>>, <<49975, 2006>>, <<62677, 3463>>, <<17754, 5357>>,
       <<43491, 59653>>, <<64751, 41976>>, <<26479, 729>>, <<36138, 19594>>,
       <<65530, 14658>>, <<34673, 63105>>, <<28061, 24866>>, <<64997, 14348>>,
       <<42174, 59972>>, <<19422, 53161>>, <<63163, 19296>>, <<48831, 48240>>,
       <<10395, 32454>>, <<60065, 10234>>, <<54511, 12421>>, <<1160, 7429>>,
       <<55764, 53305>>, <<59099, 39397>>, <<8098, 31992>>, <<50348, 22117>>,
       <<62505, 8772>>, <<17194, 65431>>, <<43924, 9127>>, <<64659, 41017>>,
       <<25947, 22979>>, <<36620, 52370>>, <<65519, 62589>>, <<34180, 24017>>,
       <<28584, 32335>>, <<65068, 59104>>, <<41729, 17172>>, <<19976, 4513>>,
       <<63315, 32386>>, <<48442, 62005>>, <<10967, 53947>>, <<60294, 54161>> >>

Md5S ==
    << 7, 12, 17, 22, 7, 12, 17, 22, 7, 12, 17, 22, 7, 12, 17, 22,
       5, 9, 14, 20, 5, 9, 14, 20, 5, 9, 14, 20, 5, 9, 14, 20,
       4, 11, 16, 23, 4, 11, 16, 23, 4, 11, 16, 23, 4, 11, 16, 23,
       6, 10, 15, 21, 6, 10, 15, 21, 6, 10, 15, 21, 6, 10, 15, 21 >>

Md5Init == << <<26437, 8961>>, <<61389, 43913>>, <<39098, 56574>>, <<4146, 21622>> >>

\* x + y modulo 2^32
Add32(x, y) ==
    LET lo == x[2] + y[2]
    IN  << (x[1] + y[1] + (lo \div 65536)) % 65536, lo % 65536 >>

\* x rotated left by s bits, 0 < s < 32
RotL32(x, s) ==
    LET h == IF s >= 16 THEN x[2] ELSE x[1]
        l == IF s >= 16 THEN x[1] ELSE x[2]
        r == s % 16
    IN  IF r = 0 THEN <<h, l>>
        ELSE << ((h * Pow2[r]) % 65536) + (l \div Pow2[16 - r]),
                ((l * Pow2[r]) % 65536) + (h \div Pow2[16 - r]) >>

\* the round function of round r (F, G, H, I) on the low n bits of x, y, z
RECURSIVE Md5Bits(_, _, _, _, _)
Md5Bits(r, x, y, z, n) ==
    IF n = 0 THEN 0
    ELSE LET xb == x % 2
             yb == y % 2
             zb == z % 2
             bit == CASE r = 0 -> (IF xb = 1 THEN yb ELSE zb)
                      [] r = 1 -> (IF zb = 1 THEN xb ELSE yb)
                      [] r = 2 -> (xb + yb + zb) % 2
                      [] OTHER -> (yb + (IF xb = 1 \/ zb = 0 THEN 1 ELSE 0)) % 2
         IN  bit + 2 * Md5Bits(r, x \div 2, y \div 2, z \div 2, n - 1)

\* the four round functions tabulated on 4-bit digits: entry
\* 4096r + 256x + 16y + z; the comparison makes the table a computed value
Md5Tab ==
    LET t == [k \in 0..16383 |->
                Md5Bits(k \div 4096, (k \div 256) % 16, (k \div 16) % 16, k % 16, 4)]
    IN  IF t = t THEN t ELSE t

\* the round function of round r on 16-bit halves, digit by digit
Md5Half(r, x, y, z) ==
    LET o == 4096 * r
    IN    Md5Tab[o + 256 * (x % 16) + 16 * (y % 16) + (z % 16)]
        + 16 * Md5Tab[o + 256 * ((x \div 16) % 16) + 16 * ((y \div 16) % 16)
                        + ((z \div 16) % 16)]
        + 256 * Md5Tab[o + 256 * ((x \div 256) % 16) + 16 * ((y \div 256) % 16)
                         + ((z \div 256) % 16)]
        + 4096 * Md5Tab[o + 256 * (x \div 4096) + 16 * (y \div 4096) + (z \div 4096)]

\* index of the message word used by step i (0..63)
Md5G(i) ==
    CASE i < 16 -> i
      [] i < 32 -> (5 * i + 1) % 16
      [] i < 48 -> (3 * i + 5) % 16
      [] OTHER  -> (7 * i) % 16

\* step i (0..63) of the compression of the 16-word block m from state
\* st = <<a, b, c, d>>: b + rotl(a + f(b, c, d) + K[i] + m[g], s[i]) becomes b
Md5Step(st, m, i) ==
    LET k  == Md5K[i + 1]
        w  == m[Md5G(i) + 1]
        a  == st[1]
        b  == st[2]
        c  == st[3]
        d  == st[4]
        lo == Md5Half(i \div 16, b[2], c[2], d[2]) + a[2] + k[2] + w[2]
        hi == Md5Half(i \div 16, b[1], c[1], d[1]) + a[1] + k[1] + w[1] + (lo \div 65536)
        t  == << hi % 65536, lo % 65536 >>
    IN  << d, Add32(b, RotL32(t, Md5S[i + 1])), b, c >>

\* steps i..j-1 in order, split in halves to keep the evaluation shallow
RECURSIVE Md5Steps(_, _, _, _)
Md5Steps(st, m, i, j) ==
    IF j = i + 1 THEN Md5Step(st, m, i)
    ELSE LET mid  == (i + j) \div 2
             half == Md5Steps(st, m, i, mid)
         IN  IF half = half THEN Md5Steps(half, m, mid, j) ELSE half

\* the message bytes followed by 0x80, zeros up to 56 mod 64, and the
\* bit length as 8 little-endian bytes
Md5Pad(bs) ==
    LET n     == Len(bs)
        zeros == (119 - (n % 64)) % 64
        bits  == n * 8
    IN  bs \o <<128>> \o [i \in 1..zeros |-> 0]
           \o << bits % 256, (bits \div 256) % 256, (bits \div 65536) % 256,
                 0, 0, 0, 0, 0 >>

\* little-endian word j (0..15) of block k (0-based) of the padded bytes p
Md5Word(p, k, j) ==
    LET o == 64 * k + 4 * j
    IN  << p[o + 3] + 256 * p[o + 4], p[o + 1] + 256 * p[o + 2] >>

\* the 16 words of block k of the padded bytes p
Md5Block(p, k) ==
    << Md5Word(p, k, 0), Md5Word(p, k, 1), Md5Word(p, k, 2), Md5Word(p, k, 3),
       Md5Word(p, k, 4), Md5Word(p, k, 5), Md5Word(p, k, 6), Md5Word(p, k, 7),
       Md5Word(p, k, 8), Md5Word(p, k, 9), Md5Word(p, k, 10), Md5Word(p, k, 11),
       Md5Word(p, k, 12), Md5Word(p, k, 13), Md5Word(p, k, 14), Md5Word(p, k, 15) >>

\* the state after a block: the state before it plus the outcome of its 64
\* steps, word by word
Md5AddState(s, o) ==
    LET st  == s
        out == o
    IN  << Add32(st[1], out[1]), Add32(st[2], out[2]),
           Add32(st[3], out[3]), Add32(st[4], out[4]) >>

\* the compression of the 16-word block b from state s
Md5Compress(s, b) ==
    LET st  == s
        blk == b
    IN  Md5AddState(st, Md5Steps(st, blk, 0, 64))

\* the state after blocks k, k + 1, ... of the padded bytes p
RECURSIVE Md5Blocks(_, _, _)
Md5Blocks(st, p, k) ==
    IF 64 * k >= Len(p) THEN st
    ELSE LET sum == Md5Compress(st, Md5Block(p, k))
         IN  Md5Blocks(sum, p, k + 1)

\* the 16 digest bytes of the final state s: its four words, little-endian
Md5Bytes(s) ==
    LET st == s
    IN  Concat([j \in 1..4 |->
            << st[j][2] % 256, st[j][2] \div 256, st[j][1] % 256, st[j][1] \div 256 >>])

\* md5::compute: the 16 digest bytes of a byte sequence
Md5Compute(bs) ==
    LET padded == Md5Pad(bs)
    IN  Md5Bytes(Md5Blocks(Md5Init, padded, 0))

HexLower == <<"0", "1", "2", "3", "4", "5", "6", "7", "8", "9", "a", "b", "c", "d", "e", "f">>

\* format!("{:x}", digest): two lowercase hex digits per byte
LowerHex(bs) ==
    Concat([i \in 1..Len(bs) |-> << HexLower[(bs[i] \div 16) + 1], HexLower[(bs[i] % 16) + 1] >>])

\* Capture::generate_token
generate_token(secret, url) == LowerHex(Md5Compute(Bytes(secret \o url)))

(***************************************************************************)
(* Text helpers: decimal and hexadecimal digits, percent-encoding.         *)
(***************************************************************************)
Digits == <<"0", "1", "2", "3", "4", "5", "6", "7", "8", "9">>

HexUpper == <<"0", "1", "2", "3", "4", "5", "6", "7", "8", "9", "A", "B", "C", "D", "E", "F">>

\* the decimal text of a natural number (u32::to_string)
RECURSIVE NatToString(_)
NatToString(n) ==
    IF n < 10 THEN <<Digits[n + 1]>>
    ELSE NatToString(n \div 10) \o <<Digits[(n % 10) + 1]>>

\* the characters urlencoding::encode leaves as they are
Unreserved(c) ==
    \/ Ord(c) \in 48..57
    \/ Ord(c) \in 65..90
    \/ Ord(c) \in 97..122
    \/ c \in {"-", "_", ".", "~"}

\* encode with a space written as '+' (form encoding), all else alike
encode_space_as_plus(str) ==
    Concat([i \in 1..Len(str) |->
        IF Unreserved(str[i]) THEN <<str[i]>>
        ELSE IF str[i] = " " THEN <<"+">>
        ELSE << "%", HexUpper[(Ord(str[i]) \div 16) + 1], HexUpper[(Ord(str[i]) % 16) + 1] >>])

\* urlencoding::encode: every other byte becomes %XX, upper-case hex
encode(str) ==
    Concat([i \in 1..Len(str) |->
        IF Unreserved(str[i]) THEN <<str[i]>>
        ELSE << "%", HexUpper[(Ord(str[i]) \div 16) + 1], HexUpper[(Ord(str[i]) % 16) + 1] >>])

\* Vec<String>::join(sep)
join(parts, sep) ==
    Concat([i \in 1..Len(parts) |-> IF i = 1 THEN parts[i] ELSE sep \o parts[i]])

(***************************************************************************)
(* serde_json::Value and Option.  A Value is a record: t is the variant,   *)
(* s the text of a String, n the number (in tenths when f, a float, is     *)
(* set), b the Bool.  An Option is a sequence of length at most one.       *)
(***************************************************************************)
None == <<>>

Some(v) == <<v>>

VString(str) == [t |-> "String", s |-> str, n |-> 0, b |-> FALSE, f |-> FALSE]

VNumber(num) == [t |-> "Number", s |-> <<>>, n |-> num, b |-> FALSE, f |-> FALSE]

VFloat(tenths) == [t |-> "Number", s |-> <<>>, n |-> tenths, b |-> FALSE, f |-> TRUE]

VBool(bool) == [t |-> "Bool", s |-> <<>>, n |-> 0, b |-> bool, f |-> FALSE]

VNull == [t |-> "Null", s |-> <<>>, n |-> 0, b |-> FALSE, f |-> FALSE]

VArray == [t |-> "Array", s |-> <<>>, n |-> 0, b |-> FALSE, f |-> FALSE]

VObject == [t |-> "Object", s |-> <<>>, n |-> 0, b |-> FALSE, f |-> FALSE]

\* serde_json::Number::to_string: integers in decimal, floats with their
\* fraction digit (1.5, 2.0)
NumberToString(v) ==
    IF v.f THEN NatToString(v.n \div 10) \o <<".">> \o NatToString(v.n % 10)
    ELSE NatToString(v.n)

\* bool::to_string
BoolToString(bool) == IF bool THEN <<"t", "r", "u", "e">> ELSE <<"f", "a", "l", "s", "e">>

\* HashMap::insert: the entry for k is replaced or added
insert(map, k, v) == [e \in (DOMAIN map) \cup {k} |-> IF e = k THEN v ELSE map[e]]

\* RequestOptions::new()
EmptyOptions == [e \in {} |-> VNull]

\* the orders in which a HashMap with the key set ks can be iterated
IterationOrders(ks) ==
    {o \in [1..Cardinality(ks) -> ks] : \A i, j \in 1..Cardinality(ks) : o[i] = o[j] => i = j}

(***************************************************************************)
(* The structured option sets and their conversion to RequestOptions.      *)
(* An f64 is a record: cls is Finite, NaN, Inf or NegInf, and tenths the   *)
(* value of a finite one in tenths.                                        *)
(***************************************************************************)
F64(tenths) == [cls |-> "Finite", tenths |-> tenths]

F64NaN == [cls |-> "NaN", tenths |-> 0]

F64Inf == [cls |-> "Inf", tenths |-> 0]

F64NegInf == [cls |-> "NegInf", tenths |-> 0]

\* from_f64 that turns a value that is not finite into null
from_f64_null_when_not_finite(x) == IF x.cls = "Finite" THEN Some(VFloat(x.tenths)) ELSE Some(VNull)

\* serde_json::Number::from_f64: None unless the value is finite
from_f64(x) == IF x.cls = "Finite" THEN Some(VFloat(x.tenths)) ELSE None

\* if let Some(v) = field { options.insert(key, Value::Number(v.into())) }
insert_number(map, field, k) ==
    IF field = None THEN map ELSE insert(map, k, VNumber(field[1]))

\* if let Some(v) = field { options.insert(key, Value::Bool(v)) }
insert_bool(map, field, k) ==
    IF field = None THEN map ELSE insert(map, k, VBool(field[1]))

\* if let Some(v) = field { options.insert(key, Value::String(v.clone())) }
insert_string(map, field, k) ==
    IF field = None THEN map ELSE insert(map, k, VString(field[1]))

\* if let Some(v) = field { if let Some(num) = from_f64(v) { options.insert(key, num) } }
insert_f64(map, field, k) ==
    IF field = None THEN map
    ELSE IF from_f64(field[1]) = None THEN map
    ELSE insert(map, k, from_f64(field[1])[1])

\* merge_additional that keeps the entry a fixed field has inserted
merge_additional_keeps_existing(map, additional) ==
    IF additional = None THEN map
    ELSE [e \in (DOMAIN map) \cup (DOMAIN additional[1]) |->
            IF e \in DOMAIN map THEN map[e] ELSE additional[1][e]]

\* if let Some(additional) = &self.additional_options { insert every entry }
merge_additional(map, additional) ==
    IF additional = None THEN map
    ELSE [e \in (DOMAIN map) \cup (DOMAIN additional[1]) |->
            IF e \in DOMAIN additional[1] THEN additional[1][e] ELSE map[e]]

\* ScreenshotOptions::default(): every field None
ScreenshotOptionsDefault ==
    [ vw |-> None, vh |-> None, scale_factor |-> None,
      full |-> None, delay |-> None, wait_for |-> None,
      wait_for_id |-> None, dark_mode |-> None, transparent |-> None,
      selector |-> None, selector_id |-> None, block_cookie_banners |-> None,
      block_ads |-> None, bypass_bot_detection |-> None, image_type |-> None,
      best_format |-> None, resize_width |-> None, resize_height |-> None,
      http_auth |-> None, user_agent |-> None, fresh |-> None,
      additional_options |-> None ]

\* PdfOptions::default(): every field None
PdfOptionsDefault ==
    [ http_auth |-> None, user_agent |-> None, width |-> None,
      height |-> None, format |-> None, margin_top |-> None,
      margin_right |-> None, margin_bottom |-> None, margin_left |-> None,
      scale |-> None, landscape |-> None, delay |-> None,
      file_name |-> None, s3_acl |-> None, s3_redirect |-> None,
      timestamp |-> None, additional_options |-> None ]

\* ContentOptions::default(): every field None
ContentOptionsDefault ==
    [ http_auth |-> None, user_agent |-> None, delay |-> None,
      wait_for |-> None, wait_for_id |-> None, additional_options |-> None ]

\* MetadataOptions::default(): every field None
MetadataOptionsDefault ==
    [ additional_options |-> None ]

\* ScreenshotOptions::to_request_options
ScreenshotOptions_to_request_options(o) ==
    LET m1 == insert_number(EmptyOptions, o.vw, <<"v", "w">>)
        m2 == insert_number(m1, o.vh, <<"v", "h">>)
        m3 == insert_f64(m2, o.scale_factor, <<"s", "c", "a", "l", "e", "F", "a", "c", "t", "o", "r">>)
        m4 == insert_bool(m3, o.full, <<"f", "u", "l", "l">>)
        m5 == insert_number(m4, o.delay, <<"d", "e", "l", "a", "y">>)
        m6 == insert_string(m5, o.wait_for, <<"w", "a", "i", "t", "F", "o", "r">>)
        m7 == insert_string(m6, o.wait_for_id, <<"w", "a", "i", "t", "F", "o", "r", "I", "d">>)
        m8 == insert_bool(m7, o.dark_mode, <<"d", "a", "r", "k", "M", "o", "d", "e">>)
        m9 == insert_bool(m8, o.transparent, <<"t", "r", "a", "n", "s", "p", "a", "r", "e", "n", "t">>)
        m10 == insert_string(m9, o.selector, <<"s", "e", "l", "e", "c", "t", "o", "r">>)
        m11 == insert_string(m10, o.selector_id, <<"s", "e", "l", "e", "c", "t", "o", "r", "I", "d">>)
        m12 == insert_bool(m11, o.block_cookie_banners, <<"b", "l", "o", "c", "k", "C", "o", "o", "k", "i", "e", "B", "a", "n", "n", "e", "r", "s">>)
        m13 == insert_bool(m12, o.block_ads, <<"b", "l", "o", "c", "k", "A", "d", "s">>)
        m14 == insert_bool(m13, o.bypass_bot_detection, <<"b", "y", "p", "a", "s", "s", "B", "o", "t", "D", "e", "t", "e", "c", "t", "i", "o", "n">>)
        m15 == insert_string(m14, o.image_type, <<"t", "y", "p", "e">>)
        m16 == insert_bool(m15, o.best_format, <<"b", "e", "s", "t", "F", "o", "r", "m", "a", "t">>)
        m17 == insert_number(m16, o.resize_width, <<"r", "e", "s", "i", "z", "e", "W", "i", "d", "t", "h">>)
        m18 == insert_number(m17, o.resize_height, <<"r", "e", "s", "i", "z", "e", "H", "e", "i", "g", "h", "t">>)
        m19 == insert_string(m18, o.http_auth, <<"h", "t", "t", "p", "A", "u", "t", "h">>)
        m20 == insert_string(m19, o.user_agent, <<"u", "s", "e", "r", "A", "g", "e", "n", "t">>)
        m21 == insert_bool(m20, o.fresh, <<"f", "r", "e", "s", "h">>)
    IN  merge_additional(m21, o.additional_options)

\* PdfOptions::to_request_options
PdfOptions_to_request_options(o) ==
    LET m1 == insert_string(EmptyOptions, o.http_auth, <<"h", "t", "t", "p", "A", "u", "t", "h">>)
        m2 == insert_string(m1, o.user_agent, <<"u", "s", "e", "r", "A", "g", "e", "n", "t">>)
        m3 == insert_string(m2, o.width, <<"w", "i", "d", "t", "h">>)
        m4 == insert_string(m3, o.height, <<"h", "e", "i", "g", "h", "t">>)
        m5 == insert_string(m4, o.format, <<"f", "o", "r", "m", "a", "t">>)
        m6 == insert_string(m5, o.margin_top, <<"m", "a", "r", "g", "i", "n", "T", "o", "p">>)
        m7 == insert_string(m6, o.margin_right, <<"m", "a", "r", "g", "i", "n", "R", "i", "g", "h", "t">>)
        m8 == insert_string(m7, o.margin_bottom, <<"m", "a", "r", "g", "i", "n", "B", "o", "t", "t", "o", "m">>)
        m9 == insert_string(m8, o.margin_left, <<"m", "a", "r", "g", "i", "n", "L", "e", "f", "t">>)
        m10 == insert_f64(m9, o.scale, <<"s", "c", "a", "l", "e">>)
        m11 == insert_bool(m10, o.landscape, <<"l", "a", "n", "d", "s", "c", "a", "p", "e">>)
        m12 == insert_number(m11, o.delay, <<"d", "e", "l", "a", "y">>)
        m13 == insert_string(m12, o.file_name, <<"f", "i", "l", "e", "N", "a", "m", "e">>)
        m14 == insert_string(m13, o.s3_acl, <<"s", "3", "A", "c", "l">>)
        m15 == insert_bool(m14, o.s3_redirect, <<"s", "3", "R", "e", "d", "i", "r", "e", "c", "t">>)
        m16 == insert_bool(m15, o.timestamp, <<"t", "i", "m", "e", "s", "t", "a", "m", "p">>)
    IN  merge_additional(m16, o.additional_options)

\* ContentOptions::to_request_options
ContentOptions_to_request_options(o) ==
    LET m1 == insert_string(EmptyOptions, o.http_auth, <<"h", "t", "t", "p", "A", "u", "t", "h">>)
        m2 == insert_string(m1, o.user_agent, <<"u", "s", "e", "r", "A", "g", "e", "n", "t">>)
        m3 == insert_number(m2, o.delay, <<"d", "e", "l", "a", "y">>)
        m4 == insert_string(m3, o.wait_for, <<"w", "a", "i", "t", "F", "o", "r">>)
        m5 == insert_string(m4, o.wait_for_id, <<"w", "a", "i", "t", "F", "o", "r", "I", "d">>)
    IN  merge_additional(m5, o.additional_options)

\* MetadataOptions::to_request_options
MetadataOptions_to_request_options(o) ==
    merge_additional(EmptyOptions, o.additional_options)

(***************************************************************************)
(* The Capture client.  self is the record [key, secret, options, client]; *)
(* a Result is Ok(text) or Err(kind).                                      *)
(***************************************************************************)
API_URL == <<"h", "t", "t", "p", "s", ":", "/", "/", "c", "d", "n", ".", "c", "a", "p", "t", "u", "r", "e", ".", "p", "a", "g", "e">>

EDGE_URL == <<"h", "t", "t", "p", "s", ":", "/", "/", "e", "d", "g", "e", ".", "c", "a", "p", "t", "u", "r", "e", ".", "p", "a", "g", "e">>

\* as_str with the Animated arm returning the Image literal
as_str_animated_as_image(request_type) ==
    CASE request_type = "Image"    -> <<"i", "m", "a", "g", "e">>
      [] request_type = "Pdf"      -> <<"p", "d", "f">>
      [] request_type = "Content"  -> <<"c", "o", "n", "t", "e", "n", "t">>
      [] request_type = "Metadata" -> <<"m", "e", "t", "a", "d", "a", "t", "a">>
      [] request_type = "Animated" -> <<"i", "m", "a", "g", "e">>

\* RequestType::as_str
as_str(request_type) ==
    CASE request_type = "Image"    -> <<"i", "m", "a", "g", "e">>
      [] request_type = "Pdf"      -> <<"p", "d", "f">>
      [] request_type = "Content"  -> <<"c", "o", "n", "t", "e", "n", "t">>
      [] request_type = "Metadata" -> <<"m", "e", "t", "a", "d", "a", "t", "a">>
      [] request_type = "Animated" -> <<"a", "n", "i", "m", "a", "t", "e", "d">>

Ok(text) == [ok |-> TRUE, val |-> text, err |-> "None"]

Err(kind) == [ok |-> FALSE, val |-> <<>>, err |-> kind]

\* the transport Client::builder()[.timeout(t)].build() gives
build_client(timeout) == [custom |-> FALSE, timeout |-> timeout]

\* CaptureOptions::default()
CaptureOptionsDefault == [use_edge |-> FALSE, timeout |-> None, client |-> None]

\* Capture::with_options
with_options(k, sec, options) ==
    [ key     |-> k,
      secret  |-> sec,
      options |-> options,
      client  |-> IF options.client = None THEN build_client(options.timeout)
                  ELSE options.client[1] ]

\* Capture::new
new(k, sec) == with_options(k, sec, CaptureOptionsDefault)

\* Capture::with_edge
with_edge(self) == [self EXCEPT !.options.use_edge = TRUE]

\* with_timeout that starts again from the default options
with_timeout_from_defaults(self, timeout) ==
    [self EXCEPT !.options = [CaptureOptionsDefault EXCEPT !.timeout = Some(timeout)],
                 !.client = build_client(Some(timeout))]

\* Capture::with_timeout
with_timeout(self, timeout) ==
    [self EXCEPT !.options.timeout = Some(timeout), !.client = build_client(Some(timeout))]

\* Capture::with_client
with_client(self, client) ==
    [self EXCEPT !.client = client, !.options.client = Some(client)]

\* the match of to_query_string: the text of a scalar value
value_str(v) ==
    CASE v.t = "String" -> v.s
      [] v.t = "Number" -> NumberToString(v)
      [] v.t = "Bool"   -> BoolToString(v.b)

\* to_query_string without the test that skips an empty value
to_query_string_keeps_empty(options, order) ==
    LET kept   == SelectSeq(order,
                      LAMBDA k : options[k].t \in {"String", "Number", "Bool"})
        params == [i \in 1..Len(kept) |->
                      encode(kept[i]) \o <<"=">> \o encode(value_str(options[kept[i]]))]
    IN  join(params, <<"&">>)

\* Capture::to_query_string, the map being iterated in the given order
to_query_string(options, order) ==
    LET kept   == SelectSeq(order,
                      LAMBDA k : /\ options[k].t \in {"String", "Number", "Bool"}
                                 /\ value_str(options[k]) # <<>>)
        params == [i \in 1..Len(kept) |->
                      encode(kept[i]) \o <<"=">> \o encode(value_str(options[kept[i]]))]
    IN  join(params, <<"&">>)

\* the base host chosen without looking at the edge flag
base_url_ignores_edge(self) == API_URL

\* the base host build_url selects
base_url(self) == IF self.options.use_edge THEN EDGE_URL ELSE API_URL

\* the text build_url returns for a query string and the token signing it
signed_url(self, request_type, token, query) ==
    base_url(self) \o <<"/">> \o self.key \o <<"/">> \o token \o <<"/">>
        \o as_str(request_type) \o <<"?">> \o query

\* the query strings of the options, one for each order in which the HashMap
\* may be iterated
query_strings(options) ==
    {to_query_string(options, order) : order \in IterationOrders(DOMAIN options)}

\* build_url with the target checked before the credentials
build_url_checks_url_first(self, request_type, url, request_options) ==
    IF url = <<>> THEN {Err("MissingUrl")}
    ELSE IF self.key = <<>> \/ self.secret = <<>> THEN {Err("MissingCredentials")}
    ELSE LET cloned  == IF request_options = None THEN EmptyOptions ELSE request_options[1]
             options == insert(cloned, <<"u", "r", "l">>, VString(url))
         IN  { Ok(signed_url(self, request_type, generate_token(self.secret, query), query))
               : query \in query_strings(options) }

\* build_url that returns MissingUrl only when the options carry no url either
build_url_accepts_option_url(self, request_type, url, request_options) ==
    IF self.key = <<>> \/ self.secret = <<>> THEN {Err("MissingCredentials")}
    ELSE LET cloned  == IF request_options = None THEN EmptyOptions ELSE request_options[1]
         IN  IF url = <<>> /\ <<"u", "r", "l">> \notin DOMAIN cloned THEN {Err("MissingUrl")}
             ELSE LET options == IF url = <<>> THEN cloned
                                 ELSE insert(cloned, <<"u", "r", "l">>, VString(url))
                  IN  { Ok(signed_url(self, request_type,
                                      generate_token(self.secret, query), query))
                        : query \in query_strings(options) }

\* build_url that serialises the options once for the token and once more for
\* the URL, so that the two iterations may differ in order
build_url_serialises_twice(self, request_type, url, request_options) ==
    IF self.key = <<>> \/ self.secret = <<>> THEN {Err("MissingCredentials")}
    ELSE IF url = <<>> THEN {Err("MissingUrl")}
    ELSE LET cloned  == IF request_options = None THEN EmptyOptions ELSE request_options[1]
             options == insert(cloned, <<"u", "r", "l">>, VString(url))
         IN  { Ok(signed_url(self, request_type, generate_token(self.secret, signed), query))
               : signed \in query_strings(options), query \in query_strings(options) }

\* build_url that inserts the target before the caller's options are merged,
\* so that an option named url replaces it
build_url_options_win(self, request_type, url, request_options) ==
    IF self.key = <<>> \/ self.secret = <<>> THEN {Err("MissingCredentials")}
    ELSE IF url = <<>> THEN {Err("MissingUrl")}
    ELSE LET cloned  == IF request_options = None THEN EmptyOptions ELSE request_options[1]
             options == merge_additional(insert(EmptyOptions, <<"u", "r", "l">>, VString(url)),
                                         Some(cloned))
         IN  { Ok(signed_url(self, request_type, generate_token(self.secret, query), query))
               : query \in query_strings(options) }

\* Capture::build_url: the results it can return, one for each query string
\* that iterating the HashMap of options in some order gives
build_url(self, request_type, url, request_options) ==
    IF self.key = <<>> \/ self.secret = <<>> THEN {Err("MissingCredentials")}
    ELSE IF url = <<>> THEN {Err("MissingUrl")}
    ELSE LET cloned  == IF request_options = None THEN EmptyOptions ELSE request_options[1]
             options == insert(cloned, <<"u", "r", "l">>, VString(url))
         IN  { Ok(signed_url(self, request_type, generate_token(self.secret, query), query))
               : query \in query_strings(options) }

build_image_url(self, url, options) == build_url(self, "Image", url, options)

build_pdf_url(self, url, options) == build_url(self, "Pdf", url, options)

build_content_url(self, url, options) == build_url(self, "Content", url, options)

build_metadata_url(self, url, options) == build_url(self, "Metadata", url, options)

build_animated_url(self, url, options) == build_url(self, "Animated", url, options)

\* the structured builders: options.map(|o| o.to_request_options())
build_screenshot_url(self, url, options) ==
    build_url(self, "Image", url, IF options = None THEN None ELSE Some(ScreenshotOptions_to_request_options(options[1])))

\* build_pdf_url_structured that does not hand the option set on
build_pdf_url_structured_without_options(self, url, options) ==
    build_url(self, "Pdf", url, None)

build_pdf_url_structured(self, url, options) ==
    build_url(self, "Pdf", url, IF options = None THEN None ELSE Some(PdfOptions_to_request_options(options[1])))

build_content_url_structured(self, url, options) ==
    build_url(self, "Content", url, IF options = None THEN None ELSE Some(ContentOptions_to_request_options(options[1])))

build_metadata_url_structured(self, url, options) ==
    build_url(self, "Metadata", url, IF options = None THEN None ELSE Some(MetadataOptions_to_request_options(options[1])))

(***************************************************************************)
(* The inputs of the model: credentials, target URLs and option values.    *)
(***************************************************************************)
MaxNumber == 3

Keys == { <<>>, <<"t", "e", "s", "t", "_", "k", "e", "y">>, <<"k", "/", "?">> }

Secrets == { <<>>, <<"t", "e", "s", "t", "_", "s", "e", "c", "r", "e", "t">> }

Targets == { <<>>, <<"h", "t", "t", "p", "s", ":", "/", "/", "e", "x", "a", "m", "p", "l", "e", ".", "c", "o", "m">>, <<"/", "p", "a", "t", "h", " ", "w", "i", "t", "h", " ", "s", "p", "a", "c", "e", "s">> }

\* a RequestOptions with the given entries, each a pair <<key, value>>
Options(entries) ==
    [k \in {e[1] : e \in entries} |-> (CHOOSE e \in entries : e[1] = k)[2]]

\* the generic option maps a caller passes
RequestOptionsSet ==
    { Options({}),
      Options({<<<<"f", "u", "l", "l">>, VBool(TRUE)>>, <<<<"d", "e", "l", "a", "y">>, VNumber(3)>>, <<<<"f", "o", "r", "m", "a", "t">>, VString(<<>>)>>}),
      Options({<<<<"f", "o", "r", "m", "a", "t">>, VString(<<"p", "n", "g">>)>>, <<<<"f", "u", "l", "l">>, VBool(TRUE)>>,
               <<<<"e", "m", "p", "t", "y">>, VString(<<>>)>>}),
      Options({<<<<"s", "e", "l", "e", "c", "t", "o", "r">>, VString(<<"d", "i", "v", ".", "c", "o", "n", "t", "e", "n", "t">>)>>, <<<<"a", " ", "b">>, VString(<<"c", "+", "d", "&", "e">>)>>}) }
    \cup { Options({<<<<"d", "e", "l", "a", "y">>, VNumber(n)>>}) : n \in 0..MaxNumber }
    \cup { Options({<<<<"u", "r", "l">>, VString(<<"h", "t", "t", "p", ":", "/", "/", "o">>)>>, <<<<"s", "k", "i", "p">>, v>>}) : v \in {VNull, VArray, VObject} }

GenericOptions == {None} \cup {Some(o) : o \in RequestOptionsSet}

ScreenshotOptionsSet ==
    { ScreenshotOptionsDefault,
      [ScreenshotOptionsDefault EXCEPT !.full = Some(TRUE), !.delay = Some(MaxNumber)],
      [ScreenshotOptionsDefault EXCEPT
          !.dark_mode = Some(FALSE), !.image_type = Some(<<"p", "n", "g">>),
          !.additional_options = Some(Options({<<<<"t", "y", "p", "e">>, VString(<<"j", "p", "e", "g">>)>>,
                                               <<<<"u", "r", "l">>, VString(<<"h", "t", "t", "p", ":", "/", "/", "o">>)>>}))],
      [ScreenshotOptionsDefault EXCEPT !.vw = Some(1280), !.scale_factor = Some(F64(15))],
      [ScreenshotOptionsDefault EXCEPT !.vw = Some(1280), !.scale_factor = Some(F64NaN)] }

PdfOptionsSet ==
    { PdfOptionsDefault,
      [PdfOptionsDefault EXCEPT
          !.format = Some(<<"A", "4">>), !.landscape = Some(TRUE),
          !.additional_options = Some(Options({<<<<"f", "o", "r", "m", "a", "t">>, VString(<<>>)>>,
                                               <<<<"s", "k", "i", "p">>, VNull>>}))],
      [PdfOptionsDefault EXCEPT !.margin_top = Some(<<"1", " ", "c", "m">>), !.scale = Some(F64(20))],
      [PdfOptionsDefault EXCEPT !.scale = Some(F64Inf)] }

ContentOptionsSet ==
    { ContentOptionsDefault,
      [ContentOptionsDefault EXCEPT !.delay = Some(MaxNumber), !.wait_for = Some(<<"#", "a", " ", "b">>)],
      [ContentOptionsDefault EXCEPT
          !.delay = Some(MaxNumber),
          !.additional_options = Some(Options({<<<<"d", "e", "l", "a", "y">>, VNumber(5)>>,
                                               <<<<"u", "r", "l">>, VString(<<"h", "t", "t", "p", ":", "/", "/", "o">>)>>}))] }

MetadataOptionsSet ==
    { MetadataOptionsDefault,
      [MetadataOptionsDefault EXCEPT
          !.additional_options = Some(Options({<<<<"u", "r", "l">>, VString(<<"h", "t", "t", "p", ":", "/", "/", "o">>)>>,
                                               <<<<"f", "u", "l", "l">>, VBool(TRUE)>>}))] }

OptionOf(set) == {None} \cup {Some(o) : o \in set}

\* the option sets a caller converts: the floating-point values, the
\* additional_options and the fields they meet
F64Options == {None, Some(F64(15)), Some(F64NaN), Some(F64Inf), Some(F64NegInf)}

AdditionalOptionsSet ==
    { None,
      Some(EmptyOptions),
      Some(Options({<<<<"f", "u", "l", "l">>, VBool(FALSE)>>, <<<<"c", "u", "s", "t", "o", "m">>, VString(<<"x">>)>>})),
      Some(Options({<<<<"t", "y", "p", "e">>, VString(<<"j", "p", "e", "g">>)>>, <<<<"s", "c", "a", "l", "e", "F", "a", "c", "t", "o", "r">>, VNumber(2)>>, <<<<"f", "r", "e", "s", "h">>, VNull>>})),
      Some(Options({<<<<"d", "e", "l", "a", "y">>, VString(<<"s", "o", "o", "n">>)>>, <<<<"s", "c", "a", "l", "e">>, VNumber(1)>>, <<<<"f", "o", "r", "m", "a", "t">>, VString(<<>>)>>})) }

DelayOptions == {None} \cup {Some(n) : n \in 0..MaxNumber}

ScreenshotOptionsAll ==
    { [ScreenshotOptionsDefault EXCEPT
          !.full = f, !.delay = d, !.scale_factor = x, !.image_type = ty,
          !.additional_options = a]
        : f \in {None, Some(TRUE)}, d \in DelayOptions, x \in F64Options,
          ty \in {None, Some(<<"p", "n", "g">>)}, a \in AdditionalOptionsSet }

PdfOptionsAll ==
    { [PdfOptionsDefault EXCEPT
          !.format = fmt, !.delay = d, !.scale = x, !.landscape = l,
          !.additional_options = a]
        : fmt \in {None, Some(<<"A", "4">>)}, d \in DelayOptions, x \in F64Options,
          l \in {None, Some(FALSE)}, a \in AdditionalOptionsSet }

ContentOptionsAll ==
    { [ContentOptionsDefault EXCEPT !.delay = d, !.wait_for = w, !.additional_options = a]
        : d \in DelayOptions, w \in {None, Some(<<"#", "a">>)}, a \in AdditionalOptionsSet }

MetadataOptionsAll ==
    { [MetadataOptionsDefault EXCEPT !.additional_options = a] : a \in AdditionalOptionsSet }

(***************************************************************************)
(* The state: the client, the last builder call and what it returned.      *)
(***************************************************************************)
\* conv is an option set with the mapping a conversion of it returned; tasks
\* are the operations in flight on the client and requests the HTTP requests
\* that were sent
VARIABLES capture, call, result, conv, tasks, requests

vars == <<capture, call, result, conv, tasks, requests>>

\* no option set is being converted: screenshot, pdf, content or metadata
\* holds the option set and out the mapping to_request_options returned
NoConversion ==
    [ kind |-> "none", screenshot |-> None, pdf |-> None, content |-> None,
      metadata |-> None, out |-> None ]

\* no operation in flight and no request sent
NoTasks == <<>>

NoRequests == <<>>

\* no call: options holds the generic options of a call, and screenshot, pdf,
\* content and metadata the option set of a structured one
NoCall ==
    [ fn |-> "none", url |-> <<>>, options |-> None, screenshot |-> None,
      pdf |-> None, content |-> None, metadata |-> None ]

NoResult == [ok |-> FALSE, val |-> <<>>, err |-> "NoCall"]

\* a client constructed by Capture::new or Capture::with_options
Init ==
    /\ capture \in { with_options(k, sec, [CaptureOptionsDefault EXCEPT !.use_edge = e])
                       : k \in Keys, sec \in Secrets, e \in BOOLEAN }
    /\ call = NoCall
    /\ result = NoResult
    /\ conv = NoConversion
    /\ tasks = NoTasks
    /\ requests = NoRequests

\* capture.with_edge(): the reconfigured client has made no call yet
WithEdge ==
    /\ capture' = with_edge(capture)
    /\ call' = NoCall
    /\ result' = NoResult
    /\ UNCHANGED <<conv, tasks, requests>>

\* the caller takes the returned value; the client is ready for the next call
TakeResult ==
    /\ call # NoCall
    /\ call' = NoCall
    /\ result' = NoResult
    /\ UNCHANGED <<capture, conv, tasks, requests>>

\* The builders: each is called when no result is pending, and the call is
\* recorded with what it returned.
BuildImageUrl ==
    /\ call = NoCall
    /\ \E url \in Targets, options \in GenericOptions :
          /\ call' = [NoCall EXCEPT !.fn = "build_image_url", !.url = url, !.options = options]
          /\ result' \in build_image_url(capture, url, options)
    /\ UNCHANGED <<capture, conv, tasks, requests>>

BuildPdfUrl ==
    /\ call = NoCall
    /\ \E url \in Targets, options \in GenericOptions :
          /\ call' = [NoCall EXCEPT !.fn = "build_pdf_url", !.url = url, !.options = options]
          /\ result' \in build_pdf_url(capture, url, options)
    /\ UNCHANGED <<capture, conv, tasks, requests>>

BuildContentUrl ==
    /\ call = NoCall
    /\ \E url \in Targets, options \in GenericOptions :
          /\ call' = [NoCall EXCEPT !.fn = "build_content_url", !.url = url, !.options = options]
          /\ result' \in build_content_url(capture, url, options)
    /\ UNCHANGED <<capture, conv, tasks, requests>>

BuildMetadataUrl ==
    /\ call = NoCall
    /\ \E url \in Targets, options \in GenericOptions :
          /\ call' = [NoCall EXCEPT !.fn = "build_metadata_url", !.url = url, !.options = options]
          /\ result' \in build_metadata_url(capture, url, options)
    /\ UNCHANGED <<capture, conv, tasks, requests>>

BuildAnimatedUrl ==
    /\ call = NoCall
    /\ \E url \in Targets, options \in GenericOptions :
          /\ call' = [NoCall EXCEPT !.fn = "build_animated_url", !.url = url, !.options = options]
          /\ result' \in build_animated_url(capture, url, options)
    /\ UNCHANGED <<capture, conv, tasks, requests>>

BuildScreenshotUrl ==
    /\ call = NoCall
    /\ \E url \in Targets, options \in OptionOf(ScreenshotOptionsSet) :
          /\ call' = [NoCall EXCEPT !.fn = "build_screenshot_url", !.url = url, !.screenshot = options]
          /\ result' \in build_screenshot_url(capture, url, options)
    /\ UNCHANGED <<capture, conv, tasks, requests>>

BuildPdfUrlStructured ==
    /\ call = NoCall
    /\ \E url \in Targets, options \in OptionOf(PdfOptionsSet) :
          /\ call' = [NoCall EXCEPT !.fn = "build_pdf_url_structured", !.url = url, !.pdf = options]
          /\ result' \in build_pdf_url_structured(capture, url, options)
    /\ UNCHANGED <<capture, conv, tasks, requests>>

BuildContentUrlStructured ==
    /\ call = NoCall
    /\ \E url \in Targets, options \in OptionOf(ContentOptionsSet) :
          /\ call' = [NoCall EXCEPT !.fn = "build_content_url_structured", !.url = url, !.content = options]
          /\ result' \in build_content_url_structured(capture, url, options)
    /\ UNCHANGED <<capture, conv, tasks, requests>>

BuildMetadataUrlStructured ==
    /\ call = NoCall
    /\ \E url \in Targets, options \in OptionOf(MetadataOptionsSet) :
          /\ call' = [NoCall EXCEPT !.fn = "build_metadata_url_structured", !.url = url, !.metadata = options]
          /\ result' \in build_metadata_url_structured(capture, url, options)
    /\ UNCHANGED <<capture, conv, tasks, requests>>

Next ==
    \/ WithEdge
    \/ TakeResult
    \/ BuildImageUrl
    \/ BuildPdfUrl
    \/ BuildContentUrl
    \/ BuildMetadataUrl
    \/ BuildAnimatedUrl
    \/ BuildScreenshotUrl
    \/ BuildPdfUrlStructured
    \/ BuildContentUrlStructured
    \/ BuildMetadataUrlStructured

Spec == Init /\ [][Next]_vars

\* The client used through its structured builders only.
StructuredNext ==
    \/ WithEdge
    \/ TakeResult
    \/ BuildScreenshotUrl
    \/ BuildPdfUrlStructured
    \/ BuildContentUrlStructured
    \/ BuildMetadataUrlStructured

StructuredSpec == Init /\ [][StructuredNext]_vars

(***************************************************************************)
(* Configuring the client: with_options, then with_edge, with_timeout and  *)
(* with_client in any order.                                               *)
(***************************************************************************)
\* the timeouts a caller sets, in seconds
Timeouts == {10, 30}

\* the transports a caller supplies: clients it has built itself
CustomClients == { [custom |-> TRUE, timeout |-> None], [custom |-> TRUE, timeout |-> Some(5)] }

\* the CaptureOptions a caller hands to with_options
CaptureOptionsSet ==
    { [use_edge |-> e, timeout |-> t, client |-> c]
        : e \in BOOLEAN,
          t \in {None} \cup {Some(d) : d \in Timeouts},
          c \in {None} \cup {Some(x) : x \in CustomClients} }

ConfigInit ==
    /\ capture \in { with_options(k, sec, o) : k \in Keys, sec \in Secrets, o \in CaptureOptionsSet }
    /\ call = NoCall
    /\ result = NoResult
    /\ conv = NoConversion
    /\ tasks = NoTasks
    /\ requests = NoRequests

\* capture.with_timeout(timeout)
WithTimeout ==
    /\ \E timeout \in Timeouts : capture' = with_timeout(capture, timeout)
    /\ call' = NoCall
    /\ result' = NoResult
    /\ UNCHANGED <<conv, tasks, requests>>

\* capture.with_client(client)
WithClient ==
    /\ \E client \in CustomClients : capture' = with_client(capture, client)
    /\ call' = NoCall
    /\ result' = NoResult
    /\ UNCHANGED <<conv, tasks, requests>>

ConfigNext ==
    \/ WithEdge
    \/ WithTimeout
    \/ WithClient

ConfigSpec == ConfigInit /\ [][ConfigNext]_vars

\* clients constructed by new, or by with_options with only the edge flag
\* set: every timeout and every custom transport comes from a builder call
BuilderInit ==
    /\ capture \in { with_options(k, sec, [CaptureOptionsDefault EXCEPT !.use_edge = e])
                        : k \in Keys, sec \in Secrets, e \in BOOLEAN }
    /\ call = NoCall
    /\ result = NoResult
    /\ conv = NoConversion
    /\ tasks = NoTasks
    /\ requests = NoRequests

BuilderSpec == BuilderInit /\ [][ConfigNext]_vars

(***************************************************************************)
(* Fetching: operations in flight on one client.  tasks[t] is the          *)
(* operation task t has invoked, requests[t] the GETs it has issued        *)
(* through the shared transport, each with the response the network has    *)
(* given it.                                                               *)
(***************************************************************************)
\* the JSON type each field of ContentResponse must have
ContentResponseShape ==
    { <<"success", "bool">>, <<"html", "string">>, <<"textContent", "string">>, <<"markdown", "string">> }

\* the JSON type each field of MetadataResponse must have
MetadataResponseShape == { <<"success", "bool">>, <<"metadata", "object">> }

NoBody == [name |-> "none", valid |-> FALSE, fields |-> {}]

\* the response bodies the server sends: name identifies the bytes, valid
\* says whether they are a JSON object, fields gives its members and their
\* JSON types
Bodies ==
    { [name |-> "png", valid |-> FALSE, fields |-> {}],
      [name |-> "content", valid |-> TRUE,
       fields |-> ContentResponseShape \cup {<<"cached", "bool">>}],
      [name |-> "metadata", valid |-> TRUE, fields |-> MetadataResponseShape],
      [name |-> "error", valid |-> TRUE, fields |-> {<<"success", "bool">>, <<"error", "string">>}],
      [name |-> "mistyped", valid |-> TRUE,
       fields |-> {<<"success", "string">>, <<"html", "string">>, <<"textContent", "string">>,
                   <<"markdown", "null">>, <<"metadata", "object">>}] }

Pending == [state |-> "pending", status |-> 0, body |-> NoBody]

\* what send().await and the reading of the body give: a reqwest::Error
\* (connection failure, timeout), or the status and the whole body of the
\* response: 200 with any of the bodies, 404 with a JSON object, 500 with
\* bytes that are not JSON
Responses ==
    { [state |-> "error", status |-> 0, body |-> NoBody] }
    \cup { [state |-> "body", status |-> 200, body |-> b] : b \in Bodies }
    \cup { [state |-> "body", status |-> 404, body |-> b] : b \in {x \in Bodies : x.name = "error"} }
    \cup { [state |-> "body", status |-> 500, body |-> b] : b \in {x \in Bodies : x.name = "png"} }

NoFetchResult == [ok |-> FALSE, err |-> "NoCall", kind |-> "none", body |-> NoBody, fields |-> {}]

FetchErr(kind) == [ok |-> FALSE, err |-> kind, kind |-> "none", body |-> NoBody, fields |-> {}]

\* Ok(bytes.to_vec())
OkBytes(body) == [ok |-> TRUE, err |-> "None", kind |-> "bytes", body |-> body, fields |-> {}]

\* Ok(content), Ok(metadata): the decoded members
OkDecoded(kind, fields) == [ok |-> TRUE, err |-> "None", kind |-> kind, body |-> NoBody, fields |-> fields]

\* the String a builder returns, as the result of a task
OkUrl == [ok |-> TRUE, err |-> "None", kind |-> "url", body |-> NoBody, fields |-> {}]

\* a decoder that gives a missing or mistyped member its default value
from_json_with_defaults(body, kind, shape) ==
    IF body.valid
    THEN OkDecoded(kind, {f \in body.fields : f \in shape})
    ELSE FetchErr("HttpError")

\* response.json::<T>(): the members of the shape, when the body is a JSON
\* object that has every one of them with its type; members the shape does
\* not name are ignored
from_json(body, kind, shape) ==
    IF body.valid /\ shape \subseteq body.fields
    THEN OkDecoded(kind, {f \in body.fields : f[1] \in {m[1] : m \in shape}})
    ELSE FetchErr("HttpError")

FetchOperations ==
    { "fetch_image", "fetch_pdf", "fetch_content", "fetch_metadata", "fetch_animated", "fetch_screenshot",
      "fetch_pdf_structured", "fetch_content_structured", "fetch_metadata_structured" }

\* the builder each fetch operation calls
builder_of(op) ==
    CASE op = "fetch_image" -> "build_image_url"
      [] op = "fetch_pdf" -> "build_pdf_url"
      [] op = "fetch_content" -> "build_content_url"
      [] op = "fetch_metadata" -> "build_metadata_url"
      [] op = "fetch_animated" -> "build_animated_url"
      [] op = "fetch_screenshot" -> "build_screenshot_url"
      [] op = "fetch_pdf_structured" -> "build_pdf_url_structured"
      [] op = "fetch_content_structured" -> "build_content_url_structured"
      [] op = "fetch_metadata_structured" -> "build_metadata_url_structured"

\* every result the builder named in c can return for client self
build_call(self, c) ==
    CASE c.fn = "build_image_url" -> build_image_url(self, c.url, c.options)
      [] c.fn = "build_pdf_url" -> build_pdf_url(self, c.url, c.options)
      [] c.fn = "build_content_url" -> build_content_url(self, c.url, c.options)
      [] c.fn = "build_metadata_url" -> build_metadata_url(self, c.url, c.options)
      [] c.fn = "build_animated_url" -> build_animated_url(self, c.url, c.options)
      [] c.fn = "build_screenshot_url" -> build_screenshot_url(self, c.url, c.screenshot)
      [] c.fn = "build_pdf_url_structured" -> build_pdf_url_structured(self, c.url, c.pdf)
      [] c.fn = "build_content_url_structured" -> build_content_url_structured(self, c.url, c.content)
      [] c.fn = "build_metadata_url_structured" -> build_metadata_url_structured(self, c.url, c.metadata)

\* build_url that inserts the target into the caller's map
options_after_build_inserting(request_options, url) ==
    IF request_options = None THEN None
    ELSE Some(insert(request_options[1], <<"u", "r", "l">>, VString(url)))

\* the caller's map after build_url has run: build_url clones it
\* (request_options.cloned()) and inserts the target into the clone
options_after_build(request_options, url) == request_options

\* send that does not stop at a builder's error
send_get_unchecked(client, built) ==
    << [url |-> built.val, client |-> client, response |-> Pending] >>

\* self.client.get(&capture_url).send(), after the ? on the builder's result:
\* the GETs the operation issues
send_get(client, built) ==
    IF built.ok THEN << [url |-> built.val, client |-> client, response |-> Pending] >> ELSE << >>

\* a transport that hands an operation the response to the first task's
\* request when there is one
response_of_first(reqs, t) ==
    IF reqs[1] # << >> THEN reqs[1][1].response ELSE reqs[t][1].response

\* the response the operation of task t awaits: the one to its own request
response_of(reqs, t) == reqs[t][1].response

\* a fetch that turns a 4xx or 5xx status into an error, as
\* Response::error_for_status does
fetch_result_for_status(op, response) ==
    IF response.state = "error" \/ response.status >= 400 THEN FetchErr("HttpError")
    ELSE IF op \in {"fetch_content", "fetch_content_structured"}
         THEN from_json(response.body, "content", ContentResponseShape)
    ELSE IF op \in {"fetch_metadata", "fetch_metadata_structured"}
         THEN from_json(response.body, "metadata", MetadataResponseShape)
    ELSE OkBytes(response.body)

\* what a fetch operation returns for the response to its request; the
\* status of the response is not looked at
fetch_result(op, response) ==
    IF response.state = "error" THEN FetchErr("HttpError")
    ELSE IF op \in {"fetch_content", "fetch_content_structured"}
         THEN from_json(response.body, "content", ContentResponseShape)
    ELSE IF op \in {"fetch_metadata", "fetch_metadata_structured"}
         THEN from_json(response.body, "metadata", MetadataResponseShape)
    ELSE OkBytes(response.body)

\* the task that has called a fetch operation with the arguments in c and got
\* built from its builder; caller_options is the caller's map after the call
started(op, c, built) ==
    [ pc |-> IF built.ok THEN "sent" ELSE "done",
      op |-> op,
      call |-> c,
      caller_options |-> options_after_build(c.options, c.url),
      built |-> built,
      result |-> IF built.ok THEN NoFetchResult ELSE FetchErr(built.err) ]

IdleTask ==
    [ pc |-> "idle", op |-> "none", call |-> NoCall, caller_options |-> None, built |-> NoResult,
      result |-> NoFetchResult ]

\* the clients, targets and options of the fetches
FetchCaptures ==
    { with_options(k, <<"t", "e", "s", "t", "_", "s", "e", "c", "r", "e", "t">>, o)
        : k \in { <<>>, <<"t", "e", "s", "t", "_", "k", "e", "y">> },
          o \in { CaptureOptionsDefault,
                  [CaptureOptionsDefault EXCEPT !.client = Some([custom |-> TRUE, timeout |-> None])] } }

FetchTargets == { <<>>, <<"h", "t", "t", "p", "s", ":", "/", "/", "e", "x", "a", "m", "p", "l", "e", ".", "c", "o", "m">> }

FetchOptions == { None, Some(Options({<<<<"f", "u", "l", "l">>, VBool(TRUE)>>})) }

GenericCalls(fn) ==
    { [NoCall EXCEPT !.fn = fn, !.url = url, !.options = options] : url \in FetchTargets, options \in FetchOptions }

ScreenshotCalls ==
    { [NoCall EXCEPT !.fn = "build_screenshot_url", !.url = url, !.screenshot = options]
        : url \in FetchTargets,
          options \in {None, Some([ScreenshotOptionsDefault EXCEPT !.full = Some(TRUE)])} }

PdfCalls ==
    { [NoCall EXCEPT !.fn = "build_pdf_url_structured", !.url = url, !.pdf = options]
        : url \in FetchTargets,
          options \in {None, Some([PdfOptionsDefault EXCEPT !.landscape = Some(TRUE)])} }

ContentCalls ==
    { [NoCall EXCEPT !.fn = "build_content_url_structured", !.url = url, !.content = options]
        : url \in FetchTargets,
          options \in {None, Some([ContentOptionsDefault EXCEPT !.delay = Some(2)])} }

MetadataCalls ==
    { [NoCall EXCEPT !.fn = "build_metadata_url_structured", !.url = url, !.metadata = options]
        : url \in FetchTargets,
          options \in {None, Some(MetadataOptionsDefault)} }

FetchCalls ==
    GenericCalls("build_image_url") \cup GenericCalls("build_pdf_url")
    \cup GenericCalls("build_content_url") \cup GenericCalls("build_metadata_url")
    \cup GenericCalls("build_animated_url")
    \cup ScreenshotCalls \cup PdfCalls \cup ContentCalls \cup MetadataCalls

\* the results of the builders for the clients and calls above, computed once
BuiltUrls == [self \in FetchCaptures |-> [c \in FetchCalls |-> build_call(self, c)]]

FetchInit ==
    /\ capture \in FetchCaptures
    /\ call = NoCall
    /\ result = NoResult
    /\ conv = NoConversion
    /\ tasks = << IdleTask >>
    /\ requests = << << >> >>

\* two operations on one client at a time
ConcurrentInit ==
    /\ capture = new(<<"t", "e", "s", "t", "_", "k", "e", "y">>, <<"t", "e", "s", "t", "_", "s", "e", "c", "r", "e", "t">>)
    /\ call = NoCall
    /\ result = NoResult
    /\ conv = NoConversion
    /\ tasks = << IdleTask, IdleTask >>
    /\ requests = << << >>, << >> >>

\* The operations a task t calls.  urls is the table BuiltUrls, handed to each
\* action by the next-state relation.

\* capture.fetch_image(url, options), up to send().await
FetchImage(t, urls) ==
    /\ tasks[t].pc = "idle"
    /\ \E c \in GenericCalls("build_image_url") : \E built \in urls[capture][c] :
          /\ tasks' = [tasks EXCEPT ![t] = started("fetch_image", c, built)]
          /\ requests' = [requests EXCEPT ![t] = send_get(capture.client, built)]
    /\ UNCHANGED <<capture, call, result, conv>>

\* capture.fetch_pdf(url, options), up to send().await
FetchPdf(t, urls) ==
    /\ tasks[t].pc = "idle"
    /\ \E c \in GenericCalls("build_pdf_url") : \E built \in urls[capture][c] :
          /\ tasks' = [tasks EXCEPT ![t] = started("fetch_pdf", c, built)]
          /\ requests' = [requests EXCEPT ![t] = send_get(capture.client, built)]
    /\ UNCHANGED <<capture, call, result, conv>>

\* capture.fetch_content(url, options), up to send().await
FetchContent(t, urls) ==
    /\ tasks[t].pc = "idle"
    /\ \E c \in GenericCalls("build_content_url") : \E built \in urls[capture][c] :
          /\ tasks' = [tasks EXCEPT ![t] = started("fetch_content", c, built)]
          /\ requests' = [requests EXCEPT ![t] = send_get(capture.client, built)]
    /\ UNCHANGED <<capture, call, result, conv>>

\* capture.fetch_metadata(url, options), up to send().await
FetchMetadata(t, urls) ==
    /\ tasks[t].pc = "idle"
    /\ \E c \in GenericCalls("build_metadata_url") : \E built \in urls[capture][c] :
          /\ tasks' = [tasks EXCEPT ![t] = started("fetch_metadata", c, built)]
          /\ requests' = [requests EXCEPT ![t] = send_get(capture.client, built)]
    /\ UNCHANGED <<capture, call, result, conv>>

\* capture.fetch_animated(url, options), up to send().await
FetchAnimated(t, urls) ==
    /\ tasks[t].pc = "idle"
    /\ \E c \in GenericCalls("build_animated_url") : \E built \in urls[capture][c] :
          /\ tasks' = [tasks EXCEPT ![t] = started("fetch_animated", c, built)]
          /\ requests' = [requests EXCEPT ![t] = send_get(capture.client, built)]
    /\ UNCHANGED <<capture, call, result, conv>>

\* capture.fetch_screenshot(url, options), up to send().await
FetchScreenshot(t, urls) ==
    /\ tasks[t].pc = "idle"
    /\ \E c \in ScreenshotCalls : \E built \in urls[capture][c] :
          /\ tasks' = [tasks EXCEPT ![t] = started("fetch_screenshot", c, built)]
          /\ requests' = [requests EXCEPT ![t] = send_get(capture.client, built)]
    /\ UNCHANGED <<capture, call, result, conv>>

\* capture.fetch_pdf_structured(url, options), up to send().await
FetchPdfStructured(t, urls) ==
    /\ tasks[t].pc = "idle"
    /\ \E c \in PdfCalls : \E built \in urls[capture][c] :
          /\ tasks' = [tasks EXCEPT ![t] = started("fetch_pdf_structured", c, built)]
          /\ requests' = [requests EXCEPT ![t] = send_get(capture.client, built)]
    /\ UNCHANGED <<capture, call, result, conv>>

\* capture.fetch_content_structured(url, options), up to send().await
FetchContentStructured(t, urls) ==
    /\ tasks[t].pc = "idle"
    /\ \E c \in ContentCalls : \E built \in urls[capture][c] :
          /\ tasks' = [tasks EXCEPT ![t] = started("fetch_content_structured", c, built)]
          /\ requests' = [requests EXCEPT ![t] = send_get(capture.client, built)]
    /\ UNCHANGED <<capture, call, result, conv>>

\* capture.fetch_metadata_structured(url, options), up to send().await
FetchMetadataStructured(t, urls) ==
    /\ tasks[t].pc = "idle"
    /\ \E c \in MetadataCalls : \E built \in urls[capture][c] :
          /\ tasks' = [tasks EXCEPT ![t] = started("fetch_metadata_structured", c, built)]
          /\ requests' = [requests EXCEPT ![t] = send_get(capture.client, built)]
    /\ UNCHANGED <<capture, call, result, conv>>

\* a builder called by task t: it returns without awaiting anything
BuildUrl(t, urls) ==
    /\ tasks[t].pc = "idle"
    /\ \E c \in FetchCalls : \E built \in urls[capture][c] :
          tasks' = [tasks EXCEPT ![t] =
                      [ pc |-> "done", op |-> c.fn,
                        call |-> c,
                        caller_options |-> options_after_build(c.options, c.url),
                        built |-> built,
                        result |-> IF built.ok THEN OkUrl ELSE FetchErr(built.err) ]]
    /\ UNCHANGED <<capture, call, result, conv, requests>>

\* the network: the request of task t fails, or its response arrives
Respond(t) ==
    /\ requests[t] # << >>
    /\ requests[t][1].response = Pending
    /\ \E response \in Responses :
          requests' = [requests EXCEPT ![t][1].response = response]
    /\ UNCHANGED <<capture, call, result, conv, tasks>>

\* the rest of a fetch operation: send().await? and bytes().await? or
\* json().await? return, and the operation with them
Receive(t) ==
    /\ tasks[t].pc = "sent"
    /\ response_of(requests, t) # Pending
    /\ tasks' = [tasks EXCEPT ![t].pc = "done",
                              ![t].result = fetch_result(tasks[t].op, response_of(requests, t))]
    /\ UNCHANGED <<capture, call, result, conv, requests>>

\* the caller has the result of task t and may call the next operation
Return(t) ==
    /\ tasks[t].pc = "done"
    /\ tasks' = [tasks EXCEPT ![t] = IdleTask]
    /\ requests' = [requests EXCEPT ![t] = << >>]
    /\ UNCHANGED <<capture, call, result, conv>>

\* one operation at a time
FetchNext ==
    \E t \in {1}, urls \in {BuiltUrls} :
        \/ FetchImage(t, urls)
        \/ FetchPdf(t, urls)
        \/ FetchContent(t, urls)
        \/ FetchMetadata(t, urls)
        \/ FetchAnimated(t, urls)
        \/ FetchScreenshot(t, urls)
        \/ FetchPdfStructured(t, urls)
        \/ FetchContentStructured(t, urls)
        \/ FetchMetadataStructured(t, urls)
        \/ BuildUrl(t, urls)
        \/ Respond(t)
        \/ Receive(t)
        \/ Return(t)

\* two tasks, each calling one operation at a time
ConcurrentNext ==
    \E t \in {1, 2}, urls \in {BuiltUrls} :
        \/ FetchImage(t, urls)
        \/ FetchPdf(t, urls)
        \/ FetchContent(t, urls)
        \/ FetchMetadata(t, urls)
        \/ FetchAnimated(t, urls)
        \/ FetchScreenshot(t, urls)
        \/ FetchPdfStructured(t, urls)
        \/ FetchContentStructured(t, urls)
        \/ FetchMetadataStructured(t, urls)
        \/ BuildUrl(t, urls)
        \/ Respond(t)
        \/ Receive(t)
        \/ Return(t)

FetchSpec == FetchInit /\ [][FetchNext]_vars

ConcurrentSpec == ConcurrentInit /\ [][ConcurrentNext]_vars

(***************************************************************************)
(* Converting an option set: the caller holds an option set and calls      *)
(* to_request_options on it.                                               *)
(***************************************************************************)
\* an option set of one of the four types, not converted yet
ConvInit ==
    /\ conv \in
          {[NoConversion EXCEPT !.kind = "screenshot", !.screenshot = Some(o)] : o \in ScreenshotOptionsAll}
          \cup {[NoConversion EXCEPT !.kind = "pdf", !.pdf = Some(o)] : o \in PdfOptionsAll}
          \cup {[NoConversion EXCEPT !.kind = "content", !.content = Some(o)] : o \in ContentOptionsAll}
          \cup {[NoConversion EXCEPT !.kind = "metadata", !.metadata = Some(o)] : o \in MetadataOptionsAll}
    /\ capture = new(<<>>, <<>>)
    /\ call = NoCall
    /\ result = NoResult
    /\ tasks = NoTasks
    /\ requests = NoRequests

\* options.to_request_options() on a ScreenshotOptions
ScreenshotToRequestOptions ==
    /\ conv.kind = "screenshot"
    /\ conv' = [conv EXCEPT !.out = Some(ScreenshotOptions_to_request_options(conv.screenshot[1]))]
    /\ UNCHANGED <<capture, call, result, tasks, requests>>

\* options.to_request_options() on a PdfOptions
PdfToRequestOptions ==
    /\ conv.kind = "pdf"
    /\ conv' = [conv EXCEPT !.out = Some(PdfOptions_to_request_options(conv.pdf[1]))]
    /\ UNCHANGED <<capture, call, result, tasks, requests>>

\* options.to_request_options() on a ContentOptions
ContentToRequestOptions ==
    /\ conv.kind = "content"
    /\ conv' = [conv EXCEPT !.out = Some(ContentOptions_to_request_options(conv.content[1]))]
    /\ UNCHANGED <<capture, call, result, tasks, requests>>

\* options.to_request_options() on a MetadataOptions
MetadataToRequestOptions ==
    /\ conv.kind = "metadata"
    /\ conv' = [conv EXCEPT !.out = Some(MetadataOptions_to_request_options(conv.metadata[1]))]
    /\ UNCHANGED <<capture, call, result, tasks, requests>>

ConvNext ==
    \/ ScreenshotToRequestOptions
    \/ PdfToRequestOptions
    \/ ContentToRequestOptions
    \/ MetadataToRequestOptions

ConvSpec == ConvInit /\ [][ConvNext]_vars

(***************************************************************************)
(* Reading a returned URL back: the query string follows the last '?'      *)
(* (a percent-encoded query holds no '?' and no '/'), the request-type     *)
(* segment lies between it and the '/' before it.                          *)
(***************************************************************************)
\* the last position of character c in text, 0 when there is none
LastIndex(text, c) ==
    IF \E i \in 1..Len(text) : text[i] = c
    THEN CHOOSE i \in 1..Len(text) : text[i] = c /\ \A j \in (i + 1)..Len(text) : text[j] # c
    ELSE 0

StartsWith(text, prefix) ==
    Len(prefix) <= Len(text) /\ SubSeq(text, 1, Len(prefix)) = prefix

Contains(text, part) ==
    \E i \in 1..(Len(text) - Len(part) + 1) : SubSeq(text, i, i + Len(part) - 1) = part

QueryOf(text) == SubSeq(text, LastIndex(text, "?") + 1, Len(text))

PathOf(text) == SubSeq(text, 1, LastIndex(text, "?") - 1)

SegmentOf(text) == SubSeq(PathOf(text), LastIndex(PathOf(text), "/") + 1, Len(PathOf(text)))

\* the parts of text between the occurrences of the separator sep, in order
Split(text, sep) ==
    LET cuts   == SelectSeq([i \in 1..Len(text) |-> i], LAMBDA i : text[i] = sep)
        from(j) == IF j = 1 THEN 1 ELSE cuts[j - 1] + 1
        upto(j) == IF j = Len(cuts) + 1 THEN Len(text) ELSE cuts[j] - 1
    IN  [j \in 1..(Len(cuts) + 1) |-> SubSeq(text, from(j), upto(j))]

\* the pairs of a query string, in order (none for the empty string)
PairsOf(query) == IF query = <<>> THEN <<>> ELSE Split(query, "&")

\* the part of a pair before its first '=' and the part after it
PairKey(pair) ==
    SubSeq(pair, 1, (CHOOSE i \in 1..Len(pair) :
                        pair[i] = "=" /\ \A j \in 1..(i - 1) : pair[j] # "=") - 1)

PairValue(pair) ==
    SubSeq(pair, (CHOOSE i \in 1..Len(pair) :
                        pair[i] = "=" /\ \A j \in 1..(i - 1) : pair[j] # "=") + 1, Len(pair))

\* the capture of the last call has valid credentials
ValidCredentials == capture.key # <<>> /\ capture.secret # <<>>

\* the RequestOptions the last call handed to build_url
PassedOptions ==
    CASE call.fn = "build_screenshot_url" ->
            IF call.screenshot = None THEN None ELSE Some(ScreenshotOptions_to_request_options(call.screenshot[1]))
      [] call.fn = "build_pdf_url_structured" ->
            IF call.pdf = None THEN None ELSE Some(PdfOptions_to_request_options(call.pdf[1]))
      [] call.fn = "build_content_url_structured" ->
            IF call.content = None THEN None ELSE Some(ContentOptions_to_request_options(call.content[1]))
      [] call.fn = "build_metadata_url_structured" ->
            IF call.metadata = None THEN None ELSE Some(MetadataOptions_to_request_options(call.metadata[1]))
      [] OTHER -> call.options

\* the mapping that is serialised: the passed options with the target as url
SerialisedOptions ==
    insert(IF PassedOptions = None THEN EmptyOptions ELSE PassedOptions[1],
           <<"u", "r", "l">>, VString(call.url))

\* the entries to_query_string has to emit, as pairs <<key, text of the value>>:
\* strings, numbers and booleans whose text is not empty
EmittedEntries ==
    { <<k, value_str(SerialisedOptions[k])>> :
        k \in { e \in DOMAIN SerialisedOptions :
                  /\ SerialisedOptions[e].t \in {"String", "Number", "Bool"}
                  /\ value_str(SerialisedOptions[e]) # <<>> } }

(***************************************************************************)
(* C1..C10                                                                 *)
(***************************************************************************)

\* C1: with an empty key or an empty secret every builder returns
\* MissingCredentials, whatever the target and the options, also when the
\* target is empty as well.
C1_MissingCredentials ==
    (call.fn # "none" /\ ~ValidCredentials) => result = Err("MissingCredentials")

\* C1 witness: a structured builder called with an empty target on a client
\* whose key is set and whose secret is empty
C1_Witness ==
    /\ call.fn = "build_pdf_url_structured"
    /\ capture.key # <<>>
    /\ capture.secret = <<>>
    /\ call.url = <<>>
    /\ result = Err("MissingCredentials")

\* C2: with a non-empty key and secret every builder called with an empty
\* target returns MissingUrl, whatever the options, also when they carry a
\* non-empty url entry.
C2_MissingUrl ==
    (call.fn # "none" /\ ValidCredentials /\ call.url = <<>>) => result = Err("MissingUrl")

\* C2 witness: an empty target with options that hold a non-empty url entry
C2_Witness ==
    /\ call.fn = "build_image_url"
    /\ ValidCredentials
    /\ call.url = <<>>
    /\ call.options # None
    /\ <<"u", "r", "l">> \in DOMAIN call.options[1]
    /\ call.options[1][<<"u", "r", "l">>].s # <<>>
    /\ result = Err("MissingUrl")

\* C3: a returned URL starts with the edge host when use_edge is set and
\* with the cdn host when it is not, and never with the other one.
C3_BaseHost ==
    result.ok =>
        IF capture.options.use_edge
        THEN StartsWith(result.val, EDGE_URL \o <<"/">>)
                /\ ~StartsWith(result.val, API_URL)
        ELSE StartsWith(result.val, API_URL \o <<"/">>)
                /\ ~StartsWith(result.val, EDGE_URL)

\* C3 witness: a URL built by a client with the edge flag set
C3_Witness ==
    /\ result.ok
    /\ capture.options.use_edge
    /\ call.fn = "build_content_url"
    /\ StartsWith(result.val, EDGE_URL)

\* the segment the claim gives for each builder
C4_Segment ==
    CASE call.fn \in {"build_image_url", "build_screenshot_url"} -> <<"i", "m", "a", "g", "e">>
      [] call.fn \in {"build_pdf_url", "build_pdf_url_structured"} -> <<"p", "d", "f">>
      [] call.fn \in {"build_content_url", "build_content_url_structured"} -> <<"c", "o", "n", "t", "e", "n", "t">>
      [] call.fn \in {"build_metadata_url", "build_metadata_url_structured"} -> <<"m", "e", "t", "a", "d", "a", "t", "a">>
      [] call.fn = "build_animated_url" -> <<"a", "n", "i", "m", "a", "t", "e", "d">>

\* C4: the last path element before the '?' of a returned URL is the fixed
\* lower-case segment of the builder that was called, whatever the options
\* and the edge flag.
C4_RequestTypeSegment ==
    result.ok => SegmentOf(result.val) = C4_Segment

\* C4 witness: build_animated_url has returned a URL on an edge client
C4_Witness ==
    /\ result.ok
    /\ call.fn = "build_animated_url"
    /\ capture.options.use_edge
    /\ call.options # None
    /\ SegmentOf(result.val) = <<"a", "n", "i", "m", "a", "t", "e", "d">>

\* C5: a returned URL is base host, '/', key, '/', token, '/', segment, '?',
\* query, and the token is the MD5 hex digest of the secret followed by the
\* very query string found after the '?' of that URL.
C5_SignedForm ==
    result.ok =>
        LET query == QueryOf(result.val)
            token == LowerHex(Md5Compute(Bytes(capture.secret \o query)))
        IN  result.val =
                (IF capture.options.use_edge THEN EDGE_URL ELSE API_URL)
                    \o <<"/">> \o capture.key \o <<"/">> \o token \o <<"/">>
                    \o C4_Segment \o <<"?">> \o query

\* C5 witness: a URL whose query has several pairs, so that more than one
\* serialisation of the options exists
C5_Witness ==
    /\ result.ok
    /\ call.fn = "build_image_url"
    /\ Len(PairsOf(QueryOf(result.val))) >= 3
    /\ Len(result.val) > Len(API_URL) + Len(capture.key) + 32

C7_TargetWins ==
    result.ok =>
        LET pairs == PairsOf(QueryOf(result.val))
            urls  == {i \in 1..Len(pairs) : PairKey(pairs[i]) = <<"u", "r", "l">>}
        IN  /\ Cardinality(urls) = 1
            /\ \A i \in urls : PairValue(pairs[i]) = encode(call.url)

\* C7 witness: build_screenshot_url with a url key in additional_options
C7_Witness ==
    /\ result.ok
    /\ call.fn = "build_screenshot_url"
    /\ call.screenshot # None
    /\ call.screenshot[1].additional_options # None
    /\ <<"u", "r", "l">> \in DOMAIN call.screenshot[1].additional_options[1]
    /\ call.screenshot[1].additional_options[1][<<"u", "r", "l">>].s # call.url

\* the value of an upper-case hexadecimal digit
HexValue(c) == (CHOOSE i \in 1..16 : HexUpper[i] = c) - 1

\* text is percent-encoded: unreserved characters and %XX triplets only, no
\* triplet standing for an unreserved character
IsPercentEncoded(text) ==
    \A i \in 1..Len(text) :
        \/ /\ text[i] = "%"
           /\ i + 2 <= Len(text)
           /\ \A j \in {i + 1, i + 2} : \E h \in 1..16 : HexUpper[h] = text[j]
           /\ 16 * HexValue(text[i + 1]) + HexValue(text[i + 2]) \in 32..126
           /\ ~Unreserved(Chr(16 * HexValue(text[i + 1]) + HexValue(text[i + 2])))
        \/ Unreserved(text[i])

\* the text a percent-encoded text stands for
PercentDecode(text) ==
    LET starts == SelectSeq([i \in 1..Len(text) |-> i],
                      LAMBDA i : ~(\E j \in {i - 1, i - 2} : j >= 1 /\ text[j] = "%"))
    IN  [j \in 1..Len(starts) |->
            IF text[starts[j]] = "%"
            THEN Chr(16 * HexValue(text[starts[j] + 1]) + HexValue(text[starts[j] + 2]))
            ELSE text[starts[j]]]

\* C8: the key and the value of every pair are percent-encoded: the query
\* holds no space and no '+', every pair decodes to an entry to emit, a space
\* is written %20 and an unreserved character such as '.' is left as it is.
C8_PercentEncoded ==
    result.ok =>
        LET query == QueryOf(result.val)
            pairs == PairsOf(query)
        IN  /\ \A i \in 1..Len(query) : query[i] \notin {" ", "+"}
            /\ \A i \in 1..Len(pairs) :
                  /\ \E j \in 1..Len(pairs[i]) : pairs[i][j] = "="
                  /\ IsPercentEncoded(PairKey(pairs[i]))
                  /\ IsPercentEncoded(PairValue(pairs[i]))
            /\ { <<PercentDecode(PairKey(pairs[i])), PercentDecode(PairValue(pairs[i]))>>
                   : i \in 1..Len(pairs) } = EmittedEntries
            /\ call.url = <<"/", "p", "a", "t", "h", " ", "w", "i", "t", "h", " ", "s", "p", "a", "c", "e", "s">>
                  => Contains(result.val, <<"p", "a", "t", "h", "%", "2", "0", "w", "i", "t", "h", "%", "2", "0", "s", "p", "a", "c", "e", "s">>)

\* C8 witness: the target with spaces was built with the selector option
C8_Witness ==
    /\ result.ok
    /\ call.url = <<"/", "p", "a", "t", "h", " ", "w", "i", "t", "h", " ", "s", "p", "a", "c", "e", "s">>
    /\ call.options # None
    /\ call.fn = "build_image_url"
    /\ Contains(result.val, <<"p", "a", "t", "h", "%", "2", "0", "w", "i", "t", "h", "%", "2", "0", "s", "p", "a", "c", "e", "s">>)
    /\ Contains(result.val, <<"s", "e", "l", "e", "c", "t", "o", "r", "=", "d", "i", "v", ".", "c", "o", "n", "t", "e", "n", "t">>)
    /\ Contains(result.val, <<"a", "%", "2", "0", "b", "=", "c", "%", "2", "B", "d", "%", "2", "6", "e">>)

\* the options of tests/integration_tests.rs, test_request_options_filtering
C10_TestOptions ==
    Options({<<<<"f", "o", "r", "m", "a", "t">>, VString(<<"p", "n", "g">>)>>, <<<<"f", "u", "l", "l">>, VBool(TRUE)>>,
             <<<<"e", "m", "p", "t", "y">>, VString(<<>>)>>})

\* C10: build_image_url with the options format = "png", full = true and an
\* empty-valued entry returns a URL without format=png, with full=true and
\* without the empty-valued entry.
C10_FormatFilteredOut ==
    ( /\ call.fn = "build_image_url"
      /\ call.url = <<"h", "t", "t", "p", "s", ":", "/", "/", "e", "x", "a", "m", "p", "l", "e", ".", "c", "o", "m">>
      /\ call.options = Some(C10_TestOptions)
      /\ result.ok )
    => /\ ~Contains(result.val, <<"f", "o", "r", "m", "a", "t", "=", "p", "n", "g">>)
       /\ Contains(result.val, <<"f", "u", "l", "l", "=", "t", "r", "u", "e">>)
       /\ ~Contains(result.val, <<"e", "m", "p", "t", "y", "=">>)

(***************************************************************************)
(* C11..C20                                                                *)
(***************************************************************************)
\* the additional_options of the option set that was converted, as a mapping
ConvAdditional ==
    LET a == CASE conv.kind = "screenshot" -> conv.screenshot[1].additional_options
               [] conv.kind = "pdf" -> conv.pdf[1].additional_options
               [] conv.kind = "content" -> conv.content[1].additional_options
               [] OTHER -> conv.metadata[1].additional_options
    IN  IF a = None THEN EmptyOptions ELSE a[1]

\* what the fixed fields of the converted option set give on their own
ConvFixedFields ==
    CASE conv.kind = "screenshot" ->
            ScreenshotOptions_to_request_options([conv.screenshot[1] EXCEPT !.additional_options = None])
      [] conv.kind = "pdf" ->
            PdfOptions_to_request_options([conv.pdf[1] EXCEPT !.additional_options = None])
      [] conv.kind = "content" ->
            ContentOptions_to_request_options([conv.content[1] EXCEPT !.additional_options = None])
      [] OTHER -> EmptyOptions

\* C11: in the mapping a conversion returns, every key of additional_options
\* carries the additional_options value, whether or not a fixed field gave
\* the same key, and every other key is a fixed field's key with the value
\* derived from that field.
C11_AdditionalWins ==
    conv.out # None =>
        LET out == conv.out[1]
        IN  /\ DOMAIN out = (DOMAIN ConvFixedFields) \cup (DOMAIN ConvAdditional)
            /\ \A k \in DOMAIN ConvAdditional : out[k] = ConvAdditional[k]
            /\ \A k \in (DOMAIN ConvFixedFields) \ (DOMAIN ConvAdditional) :
                  out[k] = ConvFixedFields[k]

\* C11 witness: a ScreenshotOptions with full = true and delay set was
\* converted with additional_options {full: false, custom: "x"}
C11_Witness ==
    /\ conv.kind = "screenshot"
    /\ conv.out # None
    /\ conv.screenshot[1].full = Some(TRUE)
    /\ conv.screenshot[1].delay = Some(MaxNumber)
    /\ <<"f", "u", "l", "l">> \in DOMAIN ConvAdditional
    /\ conv.out[1][<<"f", "u", "l", "l">>] = VBool(FALSE)
    /\ conv.out[1][<<"c", "u", "s", "t", "o", "m">>] = VString(<<"x">>)
    /\ conv.out[1][<<"d", "e", "l", "a", "y">>] = VNumber(MaxNumber)

\* the floating-point field of the converted option set and its wire key
ConvFloatField ==
    IF conv.kind = "screenshot" THEN conv.screenshot[1].scale_factor ELSE conv.pdf[1].scale

ConvFloatKey == IF conv.kind = "screenshot" THEN <<"s", "c", "a", "l", "e", "F", "a", "c", "t", "o", "r">> ELSE <<"s", "c", "a", "l", "e">>

\* the conversion of the option set with its floating-point field absent
ConvWithoutFloat ==
    IF conv.kind = "screenshot"
    THEN ScreenshotOptions_to_request_options([conv.screenshot[1] EXCEPT !.scale_factor = None])
    ELSE PdfOptions_to_request_options([conv.pdf[1] EXCEPT !.scale = None])

\* C20: a conversion of a ScreenshotOptions or PdfOptions inserts the
\* floating-point field under scaleFactor resp. scale when it is finite; when
\* it is NaN or an infinity the conversion returns what it returns with the
\* field absent, so the field gives no key and every other field is inserted.
C20_FiniteFloatOnly ==
    (conv.kind \in {"screenshot", "pdf"} /\ conv.out # None /\ ConvFloatField # None) =>
        IF ConvFloatField[1].cls = "Finite"
        THEN /\ ConvFloatKey \in DOMAIN conv.out[1]
             /\ ConvFloatKey \notin DOMAIN ConvAdditional
                    => conv.out[1][ConvFloatKey] = VFloat(ConvFloatField[1].tenths)
        ELSE /\ conv.out[1] = ConvWithoutFloat
             /\ ConvFloatKey \in DOMAIN conv.out[1] => ConvFloatKey \in DOMAIN ConvAdditional

\* C20 witness: a PdfOptions with scale = +infinity, a format and a delay was
\* converted: format and delay are there, scale is not
C20_Witness ==
    /\ conv.kind = "pdf"
    /\ conv.out # None
    /\ conv.pdf[1].scale = Some(F64Inf)
    /\ conv.pdf[1].additional_options = None
    /\ DOMAIN conv.out[1] = {<<"f", "o", "r", "m", "a", "t">>, <<"d", "e", "l", "a", "y">>}

\* every result the recorded call can return for its client and arguments
CallOutcomes ==
    CASE call.fn = "build_image_url" -> build_image_url(capture, call.url, call.options)
      [] call.fn = "build_pdf_url" -> build_pdf_url(capture, call.url, call.options)
      [] call.fn = "build_content_url" -> build_content_url(capture, call.url, call.options)
      [] call.fn = "build_metadata_url" -> build_metadata_url(capture, call.url, call.options)
      [] call.fn = "build_animated_url" -> build_animated_url(capture, call.url, call.options)
      [] call.fn = "build_screenshot_url" -> build_screenshot_url(capture, call.url, call.screenshot)
      [] call.fn = "build_pdf_url_structured" -> build_pdf_url_structured(capture, call.url, call.pdf)
      [] call.fn = "build_content_url_structured" ->
            build_content_url_structured(capture, call.url, call.content)
      [] call.fn = "build_metadata_url_structured" ->
            build_metadata_url_structured(capture, call.url, call.metadata)

\* C18: the URL a builder has returned is the only one it returns for this
\* client, target and options: the order of the query pairs, and so the
\* token, is the same in every call.
C18_OneUrl ==
    (call.fn # "none" /\ result.ok) => CallOutcomes = {result}

\* every result the generic builder of the same capture type can return for
\* the converted options of a structured call
GenericOutcomes ==
    CASE call.fn = "build_screenshot_url" -> build_image_url(capture, call.url, PassedOptions)
      [] call.fn = "build_pdf_url_structured" -> build_pdf_url(capture, call.url, PassedOptions)
      [] call.fn = "build_content_url_structured" -> build_content_url(capture, call.url, PassedOptions)
      [] call.fn = "build_metadata_url_structured" -> build_metadata_url(capture, call.url, PassedOptions)

StructuredCall ==
    call.fn \in {"build_screenshot_url", "build_pdf_url_structured",
                 "build_content_url_structured", "build_metadata_url_structured"}

\* a returned URL up to its token: the host and the key
HeadOf(text) == SubSeq(text, 1, Len(PathOf(text)) - Len(SegmentOf(text)) - 33)

PairSetOf(text) == {PairsOf(QueryOf(text))[i] : i \in 1..Len(PairsOf(QueryOf(text)))}

\* C19: what a structured builder has returned agrees with everything the
\* generic builder of its capture type returns for the converted option set
\* (for no options when there is no option set): the same error, or a URL
\* with the same host, key and segment and the same set of query pairs.
C19_StructuredIsGeneric ==
    StructuredCall =>
        \A g \in GenericOutcomes :
            IF result.ok
            THEN /\ g.ok
                 /\ HeadOf(g.val) = HeadOf(result.val)
                 /\ SegmentOf(g.val) = SegmentOf(result.val)
                 /\ PairSetOf(g.val) = PairSetOf(result.val)
            ELSE g = result

\* C19 witness: build_pdf_url_structured has returned a URL for an option
\* set with two fields, which the generic builder can also return with the
\* pairs in another order
C19_Witness ==
    /\ call.fn = "build_pdf_url_structured"
    /\ call.pdf # None
    /\ result.ok
    /\ Cardinality(PairSetOf(result.val)) >= 3
    /\ \E g \in GenericOutcomes : g # result

\* C13: once a custom transport was supplied (with_client, or a client in
\* the CaptureOptions given to with_options) it stays the transport of the
\* client, also after a later with_timeout.
C13_CustomClientKept ==
    capture.options.client # None => capture.client = capture.options.client[1]

\* C14: a fetch operation whose builder fails has issued no GET and has
\* returned the builder's error, MissingCredentials or MissingUrl; one whose
\* builder succeeds has issued exactly one GET, to the built URL through the
\* client's transport, at every moment up to its return, and when that
\* request fails the operation returns HttpError without another request.
C14_OneGet ==
    \A t \in DOMAIN tasks :
        tasks[t].op \in FetchOperations =>
            /\ tasks[t].call.fn = builder_of(tasks[t].op)
            /\ tasks[t].built \in BuiltUrls[capture][tasks[t].call]
            /\ ~tasks[t].built.ok =>
                  /\ requests[t] = << >>
                  /\ tasks[t].pc = "done"
                  /\ tasks[t].built.err \in {"MissingCredentials", "MissingUrl"}
                  /\ tasks[t].result = FetchErr(tasks[t].built.err)
            /\ tasks[t].built.ok =>
                  /\ Len(requests[t]) = 1
                  /\ requests[t][1].url = tasks[t].built.val
                  /\ requests[t][1].client = capture.client
                  /\ (tasks[t].pc = "done" /\ requests[t][1].response.state = "error") =>
                        tasks[t].result = FetchErr("HttpError")

\* a fetch has returned after its one request failed
C14_Witness ==
    \E t \in DOMAIN tasks :
        /\ tasks[t].op \in FetchOperations
        /\ tasks[t].pc = "done"
        /\ tasks[t].built.ok
        /\ Len(requests[t]) = 1
        /\ requests[t][1].response.state = "error"
        /\ tasks[t].result = FetchErr("HttpError")

\* the response shape a fetch operation decodes the body into, none for the
\* fetches that return bytes
ShapeOf(op) ==
    IF op \in {"fetch_content", "fetch_content_structured"} THEN ContentResponseShape
    ELSE IF op \in {"fetch_metadata", "fetch_metadata_structured"} THEN MetadataResponseShape
    ELSE {}

\* C15: when the response has arrived and a fetch has returned, a content or
\* metadata fetch has returned HttpError if the body is not a JSON object
\* with every member of its shape in its type, and otherwise a response in
\* which every member of the shape is filled from the body; a fetch of bytes
\* has returned the body as it is, JSON or not.
C15_DecodeOrHttpError ==
    \A t \in DOMAIN tasks :
        ( /\ tasks[t].op \in FetchOperations
          /\ tasks[t].pc = "done"
          /\ tasks[t].built.ok
          /\ requests[t][1].response.state = "body" ) =>
            IF ShapeOf(tasks[t].op) = {}
            THEN tasks[t].result = OkBytes(requests[t][1].response.body)
            ELSE /\ ~(requests[t][1].response.body.valid
                        /\ ShapeOf(tasks[t].op) \subseteq requests[t][1].response.body.fields) =>
                      tasks[t].result = FetchErr("HttpError")
                 /\ tasks[t].result.ok =>
                      /\ tasks[t].result.kind \in {"content", "metadata"}
                      /\ tasks[t].result.fields = ShapeOf(tasks[t].op)
                      /\ tasks[t].result.fields \subseteq requests[t][1].response.body.fields
                 /\ ~tasks[t].result.ok => tasks[t].result = FetchErr("HttpError")

\* a content fetch has returned HttpError for a JSON body that lacks members
\* of ContentResponse
C15_Witness ==
    \E t \in DOMAIN tasks :
        /\ tasks[t].op = "fetch_content"
        /\ tasks[t].pc = "done"
        /\ tasks[t].built.ok
        /\ requests[t][1].response.state = "body"
        /\ requests[t][1].response.body.valid
        /\ ~(ContentResponseShape \subseteq requests[t][1].response.body.fields)
        /\ tasks[t].result = FetchErr("HttpError")

\* C16: no build or fetch operation, successful or failing, changes the
\* client (key, secret, use_edge, timeout, transport), and the options map
\* the caller passed is after the operation what it was when passed.
C16_Frame ==
    /\ [](\A t \in DOMAIN tasks : tasks[t].pc # "idle" => tasks[t].caller_options = tasks[t].call.options)
    /\ [][capture' = capture]_vars

\* a fetch that was passed an options map has returned Ok
C16_Witness ==
    \E t \in DOMAIN tasks :
        /\ tasks[t].op \in FetchOperations
        /\ tasks[t].pc = "done"
        /\ tasks[t].call.options # None
        /\ tasks[t].result.ok

\* the tasks that a step changes, with their requests
Stepped == { t \in DOMAIN tasks : tasks'[t] # tasks[t] \/ requests'[t] # requests[t] }

\* C17: with two operations in flight on one client, in every interleaving
\* each operation has a URL its builder returns for its own arguments, has
\* issued at most one GET, to that URL, and has returned what it returns
\* alone for the response to its own request; and no step of one operation
\* changes the arguments, URL, request, response or result of the other.
C17_Independent ==
    /\ [](\A t \in DOMAIN tasks :
            tasks[t].pc # "idle" =>
                /\ tasks[t].built \in BuiltUrls[capture][tasks[t].call]
                /\ tasks[t].caller_options = tasks[t].call.options
                /\ requests[t] = IF tasks[t].op \in FetchOperations /\ tasks[t].built.ok
                                 THEN << [requests[t][1] EXCEPT !.url = tasks[t].built.val] >>
                                 ELSE << >>
                /\ tasks[t].pc = "done" =>
                      tasks[t].result =
                          IF ~tasks[t].built.ok THEN FetchErr(tasks[t].built.err)
                          ELSE IF tasks[t].op \in FetchOperations
                               THEN fetch_result(tasks[t].op, requests[t][1].response)
                          ELSE OkUrl)
    /\ [][Cardinality(Stepped) <= 1 /\ capture' = capture]_vars

\* two fetches on one client have both returned, with different responses
\* to their requests and different results
C17_Witness ==
    /\ Len(tasks) = 2
    /\ \A t \in DOMAIN tasks :
          tasks[t].op \in FetchOperations /\ tasks[t].pc = "done" /\ tasks[t].built.ok
    /\ requests[1][1].response # requests[2][1].response
    /\ requests[1][1].url # requests[2][1].url
    /\ tasks[1].result # tasks[2].result

\* C21: every builder call keeps the key and the secret and never clears the
\* edge flag; with_edge sets the flag and keeps the timeout and the
\* transport; with_timeout and with_client keep the flag as it is.  So the
\* flag is set exactly when it was set at construction or with_edge has been
\* called.
C21_BuilderCalls ==
    [][ /\ capture'.key = capture.key
        /\ capture'.secret = capture.secret
        /\ capture.options.use_edge => capture'.options.use_edge
        /\ WithEdge =>
              /\ capture'.options.use_edge
              /\ capture'.options.timeout = capture.options.timeout
              /\ capture'.options.client = capture.options.client
              /\ capture'.client = capture.client
        /\ (WithTimeout \/ WithClient) =>
              capture'.options.use_edge = capture.options.use_edge ]_vars

\* with_timeout and then with_client have been called on a client whose edge
\* flag was set, at construction or by with_edge: the flag is still set, and
\* the timeout and the custom transport are in the options
C21_Witness ==
    /\ capture.key # <<>>
    /\ capture.options.use_edge
    /\ capture.options.timeout = Some(30)
    /\ capture.options.client # None
    /\ capture.client = capture.options.client[1]

\* the fetches that return the body as bytes
ByteFetches == {"fetch_image", "fetch_pdf", "fetch_animated", "fetch_screenshot", "fetch_pdf_structured"}

\* C22: a fetch of bytes that has returned has returned Ok exactly when its
\* URL was built and the response with its body arrived, whatever the
\* status, and the Ok holds the bytes of the body; its error is the
\* builder's when the builder failed and HttpError when the request or the
\* reading of the body failed.
C22_StatusIgnored ==
    \A t \in DOMAIN tasks :
        (tasks[t].op \in ByteFetches /\ tasks[t].pc = "done") =>
            IF ~tasks[t].built.ok
            THEN /\ tasks[t].result = FetchErr(tasks[t].built.err)
                 /\ tasks[t].built.err \in {"MissingCredentials", "MissingUrl"}
            ELSE IF requests[t][1].response.state = "body"
                 THEN /\ requests[t][1].response.status \in {200, 404, 500}
                      /\ tasks[t].result.ok
                      /\ tasks[t].result.kind = "bytes"
                      /\ tasks[t].result.body = requests[t][1].response.body
                 ELSE tasks[t].result = FetchErr("HttpError")

\* a fetch of bytes has returned the body of a 500 response as Ok
C22_Witness ==
    \E t \in DOMAIN tasks :
        /\ tasks[t].op \in ByteFetches
        /\ tasks[t].pc = "done"
        /\ tasks[t].built.ok
        /\ requests[t][1].response.status = 500
        /\ tasks[t].result = OkBytes(requests[t][1].response.body)
====
